---- MODULE Spec2Model ----
(***************************************************************************)
(* A model of emr_basics.py: six functions that each wrap one call of the  *)
(* EMR client (emr_client), log the outcome through the module logger and  *)
(* re-raise a ClientError.  Callers are threads; each invocation is split  *)
(* at the points where it touches something shared: the remote call, and   *)
(* what follows the response (the rest of the try block, the except        *)
(* clause, the else clause).                                               *)
(***************************************************************************)
EXTENDS Integers, Sequences, FiniteSets, TLC

(* ---------------------------------------------------------------- bounds *)
MaxInvocations == 2
MaxSteps == 2
MaxArgs == 2
MaxQueue == 2

Callers == {"t1", "t2"}
Ops == {"run_job_flow", "describe_cluster", "terminate_cluster",
        "add_step", "list_steps", "describe_step"}
ClusterIds == {"j-ABC", "j-NEW"}

VARIABLES
  pc,       \* caller -> "idle" | "wait" | "body" | "raising" | "done"
  op,       \* caller -> the function it is in ("none" when idle)
  args,     \* caller -> the arguments of its invocation
  inv,      \* caller -> the number of its invocation (0 when idle)
  sent,     \* caller -> the requests its invocation has issued to emr_client
  resp,     \* caller -> what emr_client answered its request
  outcome,  \* caller -> what its invocation returned or raised
  log,      \* the records the module logger has emitted, in order
  remote,   \* the service: each cluster's status and step queue
  nInv      \* invocations started so far

vars == <<pc, op, args, inv, sent, resp, outcome, log, remote, nInv>>

(* ------------------------------------------------------------ exceptions *)
ClientErrors ==
  {[type |-> "ClientError", code |-> "ThrottlingException"]}
OtherErrors == {[type |-> "EndpointConnectionError", code |-> "none"]}
KeyError(k) == [type |-> "KeyError", code |-> k]
IndexError == [type |-> "IndexError", code |-> "0"]

(* ------------------------------------------------------------- log, None *)
None == "None"
Info(m) == [level |-> "INFO", msg |-> m]
Exc(m) == [level |-> "ERROR", msg |-> m]
Returned(v, m) == [kind |-> "returned", value |-> v, log |-> <<m>>]
Raised(e, ms) == [kind |-> "raised", error |-> e, log |-> ms]

Digits == <<"0", "1", "2", "3", "4", "5", "6", "7", "8", "9">>
Str(n) == IF n < 10 THEN Digits[n + 1] ELSE Digits[(n \div 10) + 1] \o Digits[(n % 10) + 1]

(* ------------------------------------------------------------ run_job_flow *)
\* Mutant: the script arguments are spliced in before the script's URI.
run_job_flow_steps_args_first(steps) ==
  [i \in 1..Len(steps) |->
     [Name |-> steps[i].name,
      ActionOnFailure |-> "CONTINUE",
      HadoopJarStep |->
        [Jar |-> "command-runner.jar",
         Args |-> <<"spark-submit", "--deploy-mode", "cluster">>
                    \o steps[i].script_args \o <<steps[i].script_uri>>]]]

\* The Steps argument: one entry per input step, in order (the comprehension).
run_job_flow_steps(steps) ==
  [i \in 1..Len(steps) |->
     [Name |-> steps[i].name,
      ActionOnFailure |-> "CONTINUE",
      HadoopJarStep |->
        [Jar |-> "command-runner.jar",
         Args |-> <<"spark-submit", "--deploy-mode", "cluster",
                    steps[i].script_uri>> \o steps[i].script_args]]]

\* Mutant: the cluster is sized by the number of steps.
run_job_flow_request_sized(a) ==
  [api |-> "run_job_flow",
   Name |-> a.name,
   LogUri |-> a.log_uri,
   ReleaseLabel |-> "emr-5.30.1",
   Instances |->
     [MasterInstanceType |-> "m5.xlarge",
      SlaveInstanceType |-> "m5.xlarge",
      InstanceCount |-> Len(a.steps) + 1,
      KeepJobFlowAliveWhenNoSteps |-> a.keep_alive,
      EmrManagedMasterSecurityGroup |-> a.security_groups.manager.id,
      EmrManagedSlaveSecurityGroup |-> a.security_groups.worker.id],
   Steps |-> [i \in 1..Len(a.steps) |-> [Name |-> a.steps[i].name]],
   Applications |-> [i \in 1..Len(a.applications) |-> [Name |-> a.applications[i]]],
   JobFlowRole |-> a.job_flow_role.name,
   ServiceRole |-> a.service_role.name,
   EbsRootVolumeSize |-> 10,
   VisibleToAllUsers |-> TRUE]

\* The keyword arguments of emr_client.run_job_flow(...).
run_job_flow_request(a) ==
  [api |-> "run_job_flow",
   Name |-> a.name,
   LogUri |-> a.log_uri,
   ReleaseLabel |-> "emr-5.30.1",
   Instances |->
     [MasterInstanceType |-> "m5.xlarge",
      SlaveInstanceType |-> "m5.xlarge",
      InstanceCount |-> 3,
      KeepJobFlowAliveWhenNoSteps |-> a.keep_alive,
      EmrManagedMasterSecurityGroup |-> a.security_groups.manager.id,
      EmrManagedSlaveSecurityGroup |-> a.security_groups.worker.id],
   Steps |-> run_job_flow_steps(a.steps),
   Applications |-> [i \in 1..Len(a.applications) |-> [Name |-> a.applications[i]]],
   JobFlowRole |-> a.job_flow_role.name,
   ServiceRole |-> a.service_role.name,
   EbsRootVolumeSize |-> 10,
   VisibleToAllUsers |-> TRUE]

\* The rest of the try block and the else clause, given the response.
run_job_flow_body(a, response) ==
  IF "JobFlowId" \notin DOMAIN response
  THEN Raised(KeyError("JobFlowId"), <<>>)
  ELSE Returned(response.JobFlowId,
                Info(<<"Created cluster %s.", response.JobFlowId>>))

run_job_flow_except(a, e) ==
  Raised(e, <<Exc(<<"Couldn't create cluster.">>)>>)

(* -------------------------------------------------------- describe_cluster *)
describe_cluster_request(a) ==
  [api |-> "describe_cluster", ClusterId |-> a.cluster_id]

describe_cluster_body(a, response) ==
  IF "Cluster" \notin DOMAIN response
  THEN Raised(KeyError("Cluster"), <<>>)
  ELSE IF "Name" \notin DOMAIN response.Cluster
  THEN Raised(KeyError("Name"), <<>>)
  ELSE Returned(response.Cluster,
                Info(<<"Got data for cluster %s.", response.Cluster.Name>>))

describe_cluster_except(a, e) ==
  Raised(e, <<Exc(<<"Couldn't get data for cluster %s.", a.cluster_id>>)>>)

(* ------------------------------------------------------- terminate_cluster *)
\* Mutant: the identifier is listed twice.
terminate_cluster_request_twice(a) ==
  [api |-> "terminate_job_flows", JobFlowIds |-> <<a.cluster_id, a.cluster_id>>]

terminate_cluster_request(a) ==
  [api |-> "terminate_job_flows", JobFlowIds |-> <<a.cluster_id>>]

terminate_cluster_body(a, response) ==
  Returned(None, Info(<<"Terminated cluster %s.", a.cluster_id>>))

\* Mutant: the except clause logs and forgets to re-raise.
terminate_cluster_except_swallowed(a, e) ==
  Returned(None, Exc(<<"Couldn't terminate cluster %s.", a.cluster_id>>))

terminate_cluster_except(a, e) ==
  Raised(e, <<Exc(<<"Couldn't terminate cluster %s.", a.cluster_id>>)>>)

(* ---------------------------------------------------------------- add_step *)
\* Mutant: the script arguments are left out of the command.
add_step_request_no_args(a) ==
  [api |-> "add_job_flow_steps",
   JobFlowId |-> a.cluster_id,
   Steps |->
     <<[Name |-> a.name,
        ActionOnFailure |-> "CONTINUE",
        HadoopJarStep |->
          [Jar |-> "command-runner.jar",
           Args |-> <<"spark-submit", "--deploy-mode", "cluster",
                      a.script_uri>>]]>>]

add_step_request(a) ==
  [api |-> "add_job_flow_steps",
   JobFlowId |-> a.cluster_id,
   Steps |->
     <<[Name |-> a.name,
        ActionOnFailure |-> "CONTINUE",
        HadoopJarStep |->
          [Jar |-> "command-runner.jar",
           Args |-> <<"spark-submit", "--deploy-mode", "cluster",
                      a.script_uri>> \o a.script_args]]>>]

add_step_body(a, response) ==
  IF "StepIds" \notin DOMAIN response
  THEN Raised(KeyError("StepIds"), <<>>)
  ELSE IF Len(response.StepIds) = 0
  THEN Raised(IndexError, <<>>)
  ELSE Returned(response.StepIds[1],
                Info(<<"Started step with ID %s", response.StepIds[1]>>))

add_step_except(a, e) ==
  Raised(e, <<Exc(<<"Couldn't start step %s with URI %s.", a.name, a.script_uri>>)>>)

(* -------------------------------------------------------------- list_steps *)
list_steps_request(a) ==
  [api |-> "list_steps", ClusterId |-> a.cluster_id]

list_steps_body(a, response) ==
  IF "Steps" \notin DOMAIN response
  THEN Raised(KeyError("Steps"), <<>>)
  ELSE Returned(response.Steps,
                Info(<<"Got %s steps for cluster %s.",
                       Str(Len(response.Steps)), a.cluster_id>>))

list_steps_except(a, e) ==
  Raised(e, <<Exc(<<"Couldn't get steps for cluster %s.", a.cluster_id>>)>>)

(* ----------------------------------------------------------- describe_step *)
\* Mutant: the wrong client method is called.
describe_step_request_terminates(a) ==
  [api |-> "terminate_job_flows", JobFlowIds |-> <<a.cluster_id>>]

describe_step_request(a) ==
  [api |-> "describe_step", ClusterId |-> a.cluster_id, StepId |-> a.step_id]

describe_step_body(a, response) ==
  IF "Step" \notin DOMAIN response
  THEN Raised(KeyError("Step"), <<>>)
  ELSE Returned(response.Step, Info(<<"Got data for step %s.", a.step_id>>))

describe_step_except(a, e) ==
  Raised(e, <<Exc(<<"Couldn't get data for step %s.", a.step_id>>)>>)

(* ------------------------------------------------- dispatch on the function *)
Request(o, a) ==
  CASE o = "run_job_flow" -> run_job_flow_request(a)
    [] o = "describe_cluster" -> describe_cluster_request(a)
    [] o = "terminate_cluster" -> terminate_cluster_request(a)
    [] o = "add_step" -> add_step_request(a)
    [] o = "list_steps" -> list_steps_request(a)
    [] o = "describe_step" -> describe_step_request(a)

Body(o, a, response) ==
  CASE o = "run_job_flow" -> run_job_flow_body(a, response)
    [] o = "describe_cluster" -> describe_cluster_body(a, response)
    [] o = "terminate_cluster" -> terminate_cluster_body(a, response)
    [] o = "add_step" -> add_step_body(a, response)
    [] o = "list_steps" -> list_steps_body(a, response)
    [] o = "describe_step" -> describe_step_body(a, response)

Except(o, a, e) ==
  CASE o = "run_job_flow" -> run_job_flow_except(a, e)
    [] o = "describe_cluster" -> describe_cluster_except(a, e)
    [] o = "terminate_cluster" -> terminate_cluster_except(a, e)
    [] o = "add_step" -> add_step_except(a, e)
    [] o = "list_steps" -> list_steps_except(a, e)
    [] o = "describe_step" -> describe_step_except(a, e)

\* Mutant: a bare "except Exception".
IsAnyException(e) == TRUE

\* "except ClientError": the only exception type any of the six handlers names.
IsClientError(e) == e.type = "ClientError"

\* An exception raised inside the try block: handled by the except clause when
\* it is a ClientError, and otherwise propagating past it.
Handle(o, a, e) ==
  IF IsClientError(e) THEN Except(o, a, e) ELSE Raised(e, <<>>)

(* ------------------------------------------------------------------ inputs *)
ArgAt(j) == IF j % 2 = 1 THEN "--a" ELSE "1"
\* <<>>, <<"--a">>, <<"1">>, <<"--a", "1">>, <<"1", "--a">>, ...
ScriptArgLists ==
  {[j \in 1..n |-> ArgAt(j + s)] : n \in 0..MaxArgs, s \in {0, 1}}

StepNames == <<"X", "Y", "Z", "W">>
StepUris == <<"s3://b/s.py", "s3://b/t.py", "s3://b/u.py", "s3://b/v.py">>
\* Step lists of every length up to MaxSteps; the i-th step has its own name
\* and script, and any of the argument lists.
StepLists ==
  UNION {[1..n -> ScriptArgLists] : n \in 0..MaxSteps}
StepsOf(f) ==
  [i \in DOMAIN f |->
     [name |-> StepNames[i], script_uri |-> StepUris[i], script_args |-> f[i]]]

SecurityGroups ==
  {[manager |-> [id |-> "sg-m1"], worker |-> [id |-> "sg-w1"]],
   [manager |-> [id |-> "sg-m2"], worker |-> [id |-> "sg-m2"]]}

RunJobFlowInputs ==
  {[name |-> nm, log_uri |-> lu, keep_alive |-> ka, applications |-> ap,
    job_flow_role |-> [name |-> jr],
    service_role |-> [name |-> "service-role"],
    security_groups |-> sg, steps |-> StepsOf(f)] :
     nm \in {"demo", "etl"}, lu \in {"s3://logs", "s3://logs/etl"},
     ka \in BOOLEAN, ap \in {<<>>, <<"Hadoop", "Spark">>},
     jr \in {"job-flow-role", "EMR_EC2_DefaultRole"},
     sg \in SecurityGroups, f \in StepLists}

AddStepInputs ==
  {[cluster_id |-> c, name |-> nm, script_uri |-> u, script_args |-> sa] :
     c \in ClusterIds, nm \in {"X", "Y"},
     u \in {"s3://b/s.py", "s3://b/t.py"}, sa \in ScriptArgLists}

ClusterInputs == {[cluster_id |-> c] : c \in ClusterIds}
StepInputs == {[cluster_id |-> c, step_id |-> "s-1"] : c \in ClusterIds}

\* The arguments a single caller is given.
Inputs(o) ==
  CASE o = "run_job_flow" -> RunJobFlowInputs
    [] o = "add_step" -> AddStepInputs
    [] o = "describe_step" -> StepInputs
    [] OTHER -> ClusterInputs

\* The arguments concurrent callers are given: one or two per function.
SharedInputs(o) ==
  CASE o = "run_job_flow" ->
         {[name |-> "demo", log_uri |-> "s3://logs", keep_alive |-> TRUE,
           applications |-> <<"Hadoop", "Spark">>,
           job_flow_role |-> [name |-> "job-flow-role"],
           service_role |-> [name |-> "service-role"],
           security_groups |-> [manager |-> [id |-> "sg-m1"],
                                worker |-> [id |-> "sg-w1"]],
           steps |-> StepsOf(<<<<"--a", "1">>>>)]}
    [] o = "add_step" ->
         {[cluster_id |-> c, name |-> "X", script_uri |-> "s3://b/s.py",
           script_args |-> <<"--a", "1">>] : c \in ClusterIds}
    [] o \in {"describe_cluster", "describe_step"} ->
         {a \in Inputs(o) : a.cluster_id = "j-ABC"}
    [] OTHER -> ClusterInputs

(* ---------------------------------------------------- the service (remote) *)
StepIds == <<"s-1", "s-2", "s-3", "s-4", "s-5", "s-6", "s-7", "s-8">>

\* Whether the service can serve the request (otherwise it can only fail).
CanServe(req, rem) ==
  CASE req.api = "run_job_flow" ->
         \E c \in ClusterIds : rem.status[c] = "ABSENT"
    [] req.api = "terminate_job_flows" ->
         \A i \in 1..Len(req.JobFlowIds) : rem.status[req.JobFlowIds[i]] # "ABSENT"
    [] req.api = "add_job_flow_steps" ->
         /\ rem.status[req.JobFlowId] = "WAITING"
         /\ Len(rem.queue[req.JobFlowId]) + Len(req.Steps) <= MaxQueue
    [] OTHER -> TRUE

\* The identifier the service gives a new cluster ("-" for any other request).
NewIds(req, rem) ==
  IF req.api = "run_job_flow"
  THEN {c \in ClusterIds : rem.status[c] = "ABSENT"}
  ELSE {"-"}

\* The service's state after it served the request.
Effect(req, rem, c) ==
  CASE req.api = "run_job_flow" ->
         [status |-> [rem.status EXCEPT ![c] = "WAITING"],
          queue |-> [rem.queue EXCEPT
                       ![c] = [i \in 1..Len(req.Steps) |-> req.Steps[i].Name]]]
    [] req.api = "terminate_job_flows" ->
         [rem EXCEPT !.status =
            [d \in ClusterIds |->
               IF \E i \in 1..Len(req.JobFlowIds) : req.JobFlowIds[i] = d
               THEN "TERMINATED" ELSE rem.status[d]]]
    [] req.api = "add_job_flow_steps" ->
         [rem EXCEPT !.queue[req.JobFlowId] =
            @ \o [i \in 1..Len(req.Steps) |-> req.Steps[i].Name]]
    [] OTHER -> rem

\* The responses the client may hand back for a served request, the ones that
\* lack the documented field included.
ClusterRecords(id, rem) ==
  {[Id |-> id, Name |-> "demo", Status |-> rem.status[id]],
   [Id |-> id, Status |-> rem.status[id]]}
StepSummaries(q) == [i \in 1..Len(q) |-> [Id |-> StepIds[i], Name |-> q[i]]]
Bare == [ResponseMetadata |-> "200"]

OkResponses(req, rem, c) ==
  {Bare} \cup
  CASE req.api = "run_job_flow" ->
         {[ResponseMetadata |-> "200", JobFlowId |-> c]}
    [] req.api = "describe_cluster" ->
         {[ResponseMetadata |-> "200", Cluster |-> r] :
            r \in ClusterRecords(req.ClusterId, rem)}
    [] req.api = "terminate_job_flows" -> {}
    [] req.api = "add_job_flow_steps" ->
         {[ResponseMetadata |-> "200", StepIds |-> ids] :
            ids \in {<<>>, <<StepIds[Len(rem.queue[req.JobFlowId]) + 1]>>}}
    [] req.api = "list_steps" ->
         {[ResponseMetadata |-> "200",
           Steps |-> StepSummaries(rem.queue[req.ClusterId])]}
    [] req.api = "describe_step" ->
         {[ResponseMetadata |-> "200",
           Step |-> [Id |-> req.StepId, State |-> st]] :
            st \in {"PENDING"}}

(* ------------------------------------------------------------------- state *)
NoArgs == [none |-> TRUE]
NoResp == [kind |-> "none"]
NoOutcome == [kind |-> "none"]

Init ==
  /\ pc = [t \in Callers |-> "idle"]
  /\ op = [t \in Callers |-> "none"]
  /\ args = [t \in Callers |-> NoArgs]
  /\ inv = [t \in Callers |-> 0]
  /\ sent = [t \in Callers |-> <<>>]
  /\ resp = [t \in Callers |-> NoResp]
  /\ outcome = [t \in Callers |-> NoOutcome]
  /\ log = <<>>
  /\ remote = [status |-> [c \in ClusterIds |->
                             IF c = "j-ABC" THEN "WAITING" ELSE "ABSENT"],
               queue |-> [c \in ClusterIds |-> <<>>]]
  /\ nInv = 0

\* Mutant: `response` is a module-level variable, holding whichever response
\* is still around.
response_shared(t) ==
  resp[CHOOSE u \in Callers : resp[u].kind = "ok"].body

\* The local variable `response` of caller t's frame.
response(t) == resp[t].body

\* The caller's invocation's records, as the logger stamps them.
Stamp(t, ms) == [i \in 1..Len(ms) |-> [inv |-> inv[t]] @@ ms[i]]

(* ----------------------------------------------------------------- actions *)
\* The call: the arguments are marshalled and the request is issued.
Invoke(t, o, a) ==
  /\ pc[t] = "idle"
  /\ nInv < MaxInvocations
  /\ nInv' = nInv + 1
  /\ inv' = [inv EXCEPT ![t] = nInv + 1]
  /\ op' = [op EXCEPT ![t] = o]
  /\ args' = [args EXCEPT ![t] = a]
  /\ sent' = [sent EXCEPT ![t] = <<Request(o, a)>>]
  /\ pc' = [pc EXCEPT ![t] = "wait"]
  /\ UNCHANGED <<resp, outcome, log, remote>>

\* The service serves the caller's request and the client returns a response.
ServeOk(t) ==
  /\ pc[t] = "wait"
  /\ LET req == sent[t][Len(sent[t])] IN
       /\ CanServe(req, remote)
       /\ \E c \in NewIds(req, remote) :
            /\ remote' = Effect(req, remote, c)
            /\ \E r \in OkResponses(req, remote', c) :
                 resp' = [resp EXCEPT ![t] = [kind |-> "ok", body |-> r]]
  /\ pc' = [pc EXCEPT ![t] = "body"]
  /\ UNCHANGED <<op, args, inv, sent, outcome, log, nInv>>

\* The client raises: a ClientError for an error the service returned, or
\* another exception (no connection, say).
ServeRaise(t) ==
  /\ pc[t] = "wait"
  /\ \E e \in ClientErrors \cup OtherErrors :
       resp' = [resp EXCEPT ![t] = [kind |-> "raise", error |-> e]]
  /\ pc' = [pc EXCEPT ![t] = "raising"]
  /\ UNCHANGED <<op, args, inv, sent, outcome, log, remote, nInv>>

Finish(t, res) ==
  /\ log' = log \o Stamp(t, res.log)
  /\ outcome' = [outcome EXCEPT ![t] =
       IF res.kind = "returned"
       THEN [kind |-> "returned", value |-> res.value]
       ELSE [kind |-> "raised", error |-> res.error]]
  /\ pc' = [pc EXCEPT ![t] = "done"]
  /\ UNCHANGED <<op, args, inv, sent, resp, remote, nInv>>

\* After a response: the field is read, the success is logged, the value is
\* returned; an exception raised on the way meets the except clause.
TryBody(t) ==
  /\ pc[t] = "body"
  /\ LET res == Body(op[t], args[t], response(t)) IN
       Finish(t, IF res.kind = "raised"
                 THEN Handle(op[t], args[t], res.error) ELSE res)

\* Mutant: the except clause issues the request again after a ClientError.
ExceptClauseRetry(t) ==
  /\ pc[t] = "raising"
  /\ IF IsClientError(resp[t].error)
     THEN /\ sent' = [sent EXCEPT ![t] = Append(@, Request(op[t], args[t]))]
          /\ pc' = [pc EXCEPT ![t] = "wait"]
          /\ UNCHANGED <<op, args, inv, resp, outcome, log, remote, nInv>>
     ELSE Finish(t, Handle(op[t], args[t], resp[t].error))

\* The call raised: the except clause logs and re-raises a ClientError, and
\* any other exception leaves the function as it is.
ExceptClause(t) ==
  /\ pc[t] = "raising"
  /\ Finish(t, Handle(op[t], args[t], resp[t].error))

\* The caller has its result; it may go on to call again.
Return(t) ==
  /\ pc[t] = "done"
  /\ pc' = [pc EXCEPT ![t] = "idle"]
  /\ op' = [op EXCEPT ![t] = "none"]
  /\ args' = [args EXCEPT ![t] = NoArgs]
  /\ inv' = [inv EXCEPT ![t] = 0]
  /\ sent' = [sent EXCEPT ![t] = <<>>]
  /\ resp' = [resp EXCEPT ![t] = NoResp]
  /\ outcome' = [outcome EXCEPT ![t] = NoOutcome]
  /\ UNCHANGED <<log, remote, nInv>>

Call(t) == \E o \in Ops : \E a \in SharedInputs(o) : Invoke(t, o, a)

Next ==
  \E t \in Callers :
    \/ Call(t)
    \/ ServeOk(t)
    \/ ServeRaise(t)
    \/ TryBody(t)
    \/ ExceptClause(t)
    \/ Return(t)

Spec == Init /\ [][Next]_vars

\* One caller, one invocation, over the full input sets.
CallOnce(t) ==
  /\ nInv = 0
  /\ \E o \in Ops : \E a \in Inputs(o) : Invoke(t, o, a)

NextSeq ==
  \/ CallOnce("t1")
  \/ ServeOk("t1")
  \/ ServeRaise("t1")
  \/ TryBody("t1")
  \/ ExceptClause("t1")
  \/ Return("t1")

SpecSeq == Init /\ [][NextSeq]_vars

(* ------------------------------------------------------------------ claims *)
\* The records the logger holds from caller t's invocation.
OwnLog(t) == LET Mine(e) == e.inv = inv[t] IN SelectSeq(log, Mine)

Started(t) == pc[t] # "idle"
Done(t) == pc[t] = "done"
ReadOps == {"describe_cluster", "list_steps", "describe_step"}
WriteOps == {"run_job_flow", "terminate_cluster", "add_step"}

\* What the log says when a function fails, as the source words it.
FailureMsg(o, a) ==
  CASE o = "run_job_flow" -> <<"Couldn't create cluster.">>
    [] o = "describe_cluster" -> <<"Couldn't get data for cluster %s.", a.cluster_id>>
    [] o = "terminate_cluster" -> <<"Couldn't terminate cluster %s.", a.cluster_id>>
    [] o = "add_step" -> <<"Couldn't start step %s with URI %s.", a.name, a.script_uri>>
    [] o = "list_steps" -> <<"Couldn't get steps for cluster %s.", a.cluster_id>>
    [] o = "describe_step" -> <<"Couldn't get data for step %s.", a.step_id>>

\* Whether a response carries the field the function documents.
HasField(o, b) ==
  CASE o = "run_job_flow" -> "JobFlowId" \in DOMAIN b
    [] o = "describe_cluster" -> "Cluster" \in DOMAIN b
    [] o = "terminate_cluster" -> TRUE
    [] o = "add_step" -> "StepIds" \in DOMAIN b /\ Len(b.StepIds) >= 1
    [] o = "list_steps" -> "Steps" \in DOMAIN b
    [] o = "describe_step" -> "Step" \in DOMAIN b
Field(o, b) ==
  CASE o = "run_job_flow" -> b.JobFlowId
    [] o = "describe_cluster" -> b.Cluster
    [] o = "terminate_cluster" -> None
    [] o = "add_step" -> b.StepIds[1]
    [] o = "list_steps" -> b.Steps
    [] o = "describe_step" -> b.Step

\* C1 as written: whenever the client raises a failure, of whatever type, the
\* function raises that same failure and its invocation logs exactly one record.
C1_AnyFailureLoggedOnce ==
  \A t \in Callers :
    (Done(t) /\ resp[t].kind = "raise") =>
      /\ outcome[t] = [kind |-> "raised", error |-> resp[t].error]
      /\ Len(OwnLog(t)) = 1

\* C1 amended: whenever the client raises a ClientError, the function raises
\* that same error and its invocation logs exactly one record, the failure
\* record of the function; a failure of another type is raised unchanged too,
\* with no record logged.
C1_ClientErrorLoggedOnce ==
  \A t \in Callers :
    (Done(t) /\ resp[t].kind = "raise") =>
      /\ outcome[t] = [kind |-> "raised", error |-> resp[t].error]
      /\ IF resp[t].error.type = "ClientError"
         THEN /\ Len(OwnLog(t)) = 1
              /\ OwnLog(t)[1].level = "ERROR"
              /\ OwnLog(t)[1].msg = FailureMsg(op[t], args[t])
         ELSE OwnLog(t) = <<>>

C1_Witness ==
  \E t \in Callers :
    /\ Done(t) /\ op[t] = "terminate_cluster"
    /\ resp[t].kind = "raise" /\ resp[t].error.type = "ClientError"
    /\ outcome[t].kind = "raised" /\ Len(OwnLog(t)) = 1

\* C2: whenever the client returns a response that carries the documented
\* field, the function returns exactly that field's value (terminate_cluster:
\* no value).
C2_ReturnsField ==
  \A t \in Callers :
    (Done(t) /\ resp[t].kind = "ok" /\ HasField(op[t], resp[t].body)) =>
      outcome[t] = [kind |-> "returned", value |-> Field(op[t], resp[t].body)]

\* C3: run_job_flow's request has one Steps entry per input step, in order,
\* each with the step's name, CONTINUE, command-runner.jar and the arguments
\* spark-submit --deploy-mode cluster script_uri followed by script_args.
C3_StepsShape ==
  \A t \in Callers :
    (Started(t) /\ op[t] = "run_job_flow") =>
      /\ Len(sent[t]) >= 1
      /\ LET req == sent[t][1]
             st == args[t].steps
         IN /\ req.api = "run_job_flow"
            /\ Len(req.Steps) = Len(st)
            /\ \A i \in 1..Len(st) :
                 LET e == req.Steps[i]
                     ar == e.HadoopJarStep.Args
                 IN /\ DOMAIN e = {"Name", "ActionOnFailure", "HadoopJarStep"}
                    /\ e.Name = st[i].name
                    /\ e.ActionOnFailure = "CONTINUE"
                    /\ e.HadoopJarStep.Jar = "command-runner.jar"
                    /\ Len(ar) = 4 + Len(st[i].script_args)
                    /\ ar[1] = "spark-submit"
                    /\ ar[2] = "--deploy-mode"
                    /\ ar[3] = "cluster"
                    /\ ar[4] = st[i].script_uri
                    /\ \A j \in 1..Len(st[i].script_args) :
                         ar[4 + j] = st[i].script_args[j]

C3_Witness ==
  \E t \in Callers :
    /\ Started(t) /\ op[t] = "run_job_flow"
    /\ Len(args[t].steps) = 2
    /\ args[t].steps[1].script_args = <<>>
    /\ args[t].steps[2].script_args = <<"1", "--a">>
    /\ sent[t][1].Steps[2].HadoopJarStep.Args =
         <<"spark-submit", "--deploy-mode", "cluster", "s3://b/t.py", "1", "--a">>

\* C4: add_step's request is addressed to the given cluster and holds exactly
\* one step: the given name, CONTINUE, command-runner.jar, and the arguments
\* spark-submit --deploy-mode cluster script_uri followed by script_args.
C4_AddStepShape ==
  \A t \in Callers :
    (Started(t) /\ op[t] = "add_step") =>
      /\ Len(sent[t]) >= 1
      /\ LET req == sent[t][1]
             a == args[t]
         IN /\ req.api = "add_job_flow_steps"
            /\ req.JobFlowId = a.cluster_id
            /\ Len(req.Steps) = 1
            /\ req.Steps[1].Name = a.name
            /\ req.Steps[1].ActionOnFailure = "CONTINUE"
            /\ req.Steps[1].HadoopJarStep.Jar = "command-runner.jar"
            /\ LET ar == req.Steps[1].HadoopJarStep.Args
               IN /\ Len(ar) = 4 + Len(a.script_args)
                  /\ SubSeq(ar, 1, 4) =
                       <<"spark-submit", "--deploy-mode", "cluster", a.script_uri>>
                  /\ SubSeq(ar, 5, Len(ar)) = a.script_args

C4_Witness ==
  \E t \in Callers :
    /\ Started(t) /\ op[t] = "add_step"
    /\ args[t].name = "X" /\ args[t].script_uri = "s3://b/s.py"
    /\ args[t].script_args = <<"--a", "1">>
    /\ sent[t][1].Steps[1].HadoopJarStep.Args =
         <<"spark-submit", "--deploy-mode", "cluster", "s3://b/s.py", "--a", "1">>

\* C5: terminate_cluster's request lists exactly the one identifier given.
C5_TerminateOneId ==
  \A t \in Callers :
    (Started(t) /\ op[t] = "terminate_cluster") =>
      /\ Len(sent[t]) >= 1
      /\ sent[t][1].api = "terminate_job_flows"
      /\ Len(sent[t][1].JobFlowIds) = 1
      /\ sent[t][1].JobFlowIds[1] = args[t].cluster_id

C5_Witness ==
  \E t \in Callers :
    /\ Started(t) /\ op[t] = "terminate_cluster"
    /\ args[t].cluster_id = "j-ABC"
    /\ sent[t][1].JobFlowIds = <<"j-ABC">>

\* C6: every run_job_flow request has instance count 3, the same type in both
\* instance type fields, root volume size 10, visibility true and release
\* label emr-5.30.1, whatever the inputs; the name, log URI, keep-alive flag,
\* security-group ids, applications and role names are the inputs'.
C6_FixedShape ==
  \A t \in Callers :
    (Started(t) /\ op[t] = "run_job_flow") =>
      /\ Len(sent[t]) >= 1
      /\ LET req == sent[t][1]
             a == args[t]
         IN /\ req.Instances.InstanceCount = 3
            /\ req.Instances.MasterInstanceType = req.Instances.SlaveInstanceType
            /\ req.Instances.MasterInstanceType = "m5.xlarge"
            /\ req.EbsRootVolumeSize = 10
            /\ req.VisibleToAllUsers = TRUE
            /\ req.ReleaseLabel = "emr-5.30.1"
            /\ req.Name = a.name
            /\ req.LogUri = a.log_uri
            /\ req.Instances.KeepJobFlowAliveWhenNoSteps = a.keep_alive
            /\ req.Instances.EmrManagedMasterSecurityGroup = a.security_groups.manager.id
            /\ req.Instances.EmrManagedSlaveSecurityGroup = a.security_groups.worker.id
            /\ Len(req.Applications) = Len(a.applications)
            /\ \A i \in 1..Len(a.applications) :
                 req.Applications[i] = [Name |-> a.applications[i]]
            /\ req.JobFlowRole = a.job_flow_role.name
            /\ req.ServiceRole = a.service_role.name

C6_Witness ==
  \E t \in Callers :
    /\ Started(t) /\ op[t] = "run_job_flow"
    /\ args[t].name = "etl" /\ args[t].log_uri = "s3://logs/etl"
    /\ args[t].job_flow_role.name = "EMR_EC2_DefaultRole"
    /\ ~args[t].keep_alive
    /\ args[t].applications = <<>>
    /\ args[t].security_groups.manager.id = "sg-m2"
    /\ Len(args[t].steps) = 2
    /\ sent[t][1].Instances.InstanceCount = 3

\* What an invocation of o with arguments a yields when it runs alone and the
\* client answers r: the except clause meets whatever the try block raises.
Alone(o, a, r) ==
  LET tried == IF r.kind = "ok" THEN Body(o, a, r.body) ELSE Raised(r.error, <<>>)
  IN IF tried.kind = "raised" THEN Handle(o, a, tried.error) ELSE tried

\* C7: an invocation issues exactly one request: one is out as soon as it has
\* started, and there is still exactly one when it returns or raises.
C7_OneRequest ==
  \A t \in Callers :
    /\ Started(t) => Len(sent[t]) = 1
    /\ ~Started(t) => sent[t] = <<>>

C7_Witness ==
  \E t \in Callers :
    /\ Done(t) /\ resp[t].kind = "raise" /\ resp[t].error.type = "ClientError"
    /\ outcome[t].kind = "raised" /\ Len(sent[t]) = 1

\* C8: under every interleaving, an invocation's request is the one its own
\* arguments give, and what it returns or raises and what it logs are what it
\* yields alone from its own arguments and the answer to its own request.
C8_Independent ==
  \A t \in Callers :
    /\ Started(t) => sent[t] = <<Request(op[t], args[t])>>
    /\ Done(t) =>
         LET alone == Alone(op[t], args[t], resp[t])
         IN /\ outcome[t].kind = alone.kind
            /\ alone.kind = "returned" => outcome[t].value = alone.value
            /\ alone.kind = "raised" => outcome[t].error = alone.error
            /\ Len(OwnLog(t)) = Len(alone.log)
            /\ \A i \in 1..Len(alone.log) :
                 /\ OwnLog(t)[i].level = alone.log[i].level
                 /\ OwnLog(t)[i].msg = alone.log[i].msg

\* Two invocations overlapped: one finished while the other, of another
\* function, held a different response.
C8_Witness ==
  \E t, u \in Callers :
    /\ t # u /\ Done(t) /\ pc[u] = "body"
    /\ inv[u] < inv[t]
    /\ op[t] = "add_step" /\ op[u] = "run_job_flow"
    /\ outcome[t].kind = "returned"
    /\ resp[u].body # resp[t].body

\* C9: describe_cluster, list_steps and describe_step send only their own
\* query, with the identifiers as given, and the service's clusters, statuses
\* and step queues change only in a step that serves a request of
\* run_job_flow, terminate_cluster or add_step.
C9_ReadOnly ==
  /\ [](\A t \in Callers :
          (Started(t) /\ op[t] \in ReadOps) =>
            sent[t] =
              <<CASE op[t] = "describe_cluster" ->
                       [api |-> "describe_cluster", ClusterId |-> args[t].cluster_id]
                  [] op[t] = "list_steps" ->
                       [api |-> "list_steps", ClusterId |-> args[t].cluster_id]
                  [] op[t] = "describe_step" ->
                       [api |-> "describe_step", ClusterId |-> args[t].cluster_id,
                        StepId |-> args[t].step_id]>>)
  /\ [][remote' # remote =>
          \E t \in Callers :
            /\ op[t] \in WriteOps /\ pc[t] = "wait" /\ pc'[t] = "body"
            /\ \A u \in Callers \ {t} : pc'[u] = pc[u]]_vars

\* A read of a cluster whose queue an earlier write filled.
C9_Witness ==
  \E t \in Callers :
    /\ Done(t) /\ op[t] = "list_steps"
    /\ outcome[t].kind = "returned" /\ Len(outcome[t].value) >= 1
    /\ remote.queue[args[t].cluster_id] # <<>>

\* C10: a failure record is logged only for a ClientError: an invocation that
\* fails otherwise (a response without the expected field, an empty StepIds,
\* a cluster record without a Name, another exception from the client) raises,
\* returns nothing and logs nothing; an invocation logs at most one record.
C10_OnlyClientErrorLogged ==
  \A t \in Callers :
    /\ Len(OwnLog(t)) <= 1
    /\ Done(t) =>
         /\ (outcome[t].kind = "raised" /\ outcome[t].error.type # "ClientError")
              => OwnLog(t) = <<>>
         /\ (\E i \in 1..Len(OwnLog(t)) : OwnLog(t)[i].level = "ERROR")
              => (outcome[t].kind = "raised" /\ outcome[t].error.type = "ClientError")
         /\ (\E i \in 1..Len(OwnLog(t)) : OwnLog(t)[i].level = "INFO")
              => outcome[t].kind = "returned"
         /\ (resp[t].kind = "ok" /\
               (\/ ~HasField(op[t], resp[t].body)
                \/ (op[t] = "describe_cluster" /\
                      "Name" \notin DOMAIN resp[t].body.Cluster)))
              => /\ outcome[t].kind = "raised"
                 /\ outcome[t].error.type \in {"KeyError", "IndexError"}
                 /\ OwnLog(t) = <<>>

C10_Witness ==
  \E t \in Callers :
    /\ Done(t) /\ op[t] = "add_step"
    /\ resp[t].kind = "ok" /\ "StepIds" \in DOMAIN resp[t].body
    /\ resp[t].body.StepIds = <<>>
    /\ outcome[t] = [kind |-> "raised", error |-> IndexError]
    /\ OwnLog(t) = <<>>

====
